---------------------------- MODULE Spec2Model ----------------------------
(***************************************************************************)
(* A model of scct_predictions: discovery of the active SCCT profile,      *)
(* reading of the casting_data files, construction of MatchDetails and the *)
(* payout decision of the /predictions/payout route.                       *)
(*                                                                         *)
(* Texts (file contents, directory names, team names, labels) are          *)
(* sequences of one-character strings, so that int(), int(.., 16), the     *)
(* [2:] slice and the f-string formatting are computed, not assumed.       *)
(***************************************************************************)
EXTENDS Integers, Sequences, FiniteSets, TLC

VARIABLES
    dirPresent,     \* SCCT_PROFILES_DIR exists
    listing,        \* what os.listdir(SCCT_PROFILES_DIR) returns now
    listening,      \* the local TCP ports that accept a connection now
    files,          \* files[profile_id][filename]: a casting_data file now
    prediction,     \* the broadcaster's latest Twitch prediction
    ended,          \* the end_prediction calls issued so far
    pc,             \* pc[c]: position of request c in predictions_payout
    frame,          \* frame[c]: the local variables of request c
    quiet,          \* history: nothing outside changed since request c began
    held,           \* history: what the files held during the call of c,
                    \* kept until the decision on its record
    changes         \* number of changes made by the casting tool so far

vars == <<dirPresent, listing, listening, files, prediction, ended, pc,
          frame, quiet, held, changes>>

envVars == <<dirPresent, listing, listening, files, prediction>>

----------------------------------------------------------------------------
(* Bounds of the model.                                                    *)

MaxBestof == 4
MaxScore == 3
MaxListing == 2
MaxChanges == 1
MaxWrites == 2

(* Program constants.                                                      *)

HttpError == 500
DefaultDerived == -1

----------------------------------------------------------------------------
(* Python text operations.                                                 *)

Whitespace == {" ", "\n", "\t"}

RECURSIVE lstrip(_)
lstrip(s) ==
    IF s # <<>> /\ Head(s) \in Whitespace THEN lstrip(Tail(s)) ELSE s

RECURSIVE rstrip(_)
rstrip(s) ==
    IF s # <<>> /\ s[Len(s)] \in Whitespace
    THEN rstrip(SubSeq(s, 1, Len(s) - 1))
    ELSE s

strip(s) == rstrip(lstrip(s))

LowerDigits == <<"0", "1", "2", "3", "4", "5", "6", "7", "8", "9",
                 "a", "b", "c", "d", "e", "f">>

UpperDigits == <<"0", "1", "2", "3", "4", "5", "6", "7", "8", "9",
                 "A", "B", "C", "D", "E", "F">>

\* The value of a digit character, -1 when it is no digit of base 16.
DigitValue(ch) ==
    IF \E i \in 1..16 : LowerDigits[i] = ch
    THEN (CHOOSE i \in 1..16 : LowerDigits[i] = ch) - 1
    ELSE IF \E i \in 1..16 : UpperDigits[i] = ch
         THEN (CHOOSE i \in 1..16 : UpperDigits[i] = ch) - 1
         ELSE -1

\* The digits part of an integer literal: digits of the base, single
\* underscores between them (and after a base prefix).
well_formed_digits(s, base, prefixed) ==
    /\ s # <<>>
    /\ \A i \in 1..Len(s) :
          s[i] = "_" \/ (DigitValue(s[i]) >= 0 /\ DigitValue(s[i]) < base)
    /\ s[Len(s)] # "_"
    /\ (s[1] = "_" => prefixed)
    /\ \A i \in 1..(Len(s) - 1) : ~(s[i] = "_" /\ s[i + 1] = "_")

RECURSIVE digits_value(_, _, _)
digits_value(s, base, acc) ==
    IF s = <<>> THEN acc
    ELSE IF Head(s) = "_" THEN digits_value(Tail(s), base, acc)
    ELSE digits_value(Tail(s), base, acc * base + DigitValue(Head(s)))

\* Python's int(text, base) for base 10 and 16: ok = FALSE is ValueError.
py_int(text, base) ==
    LET s == strip(text)
        signed == s # <<>> /\ Head(s) \in {"+", "-"}
        neg == s # <<>> /\ Head(s) = "-"
        unsignedPart == IF signed THEN Tail(s) ELSE s
        prefixed == /\ base = 16
                    /\ Len(unsignedPart) >= 2
                    /\ unsignedPart[1] = "0"
                    /\ unsignedPart[2] \in {"x", "X"}
        body == IF prefixed
                THEN SubSeq(unsignedPart, 3, Len(unsignedPart))
                ELSE unsignedPart
    IN  IF well_formed_digits(body, base, prefixed)
        THEN [ok |-> TRUE,
              val |-> IF neg THEN 0 - digits_value(body, base, 0)
                             ELSE digits_value(body, base, 0)]
        ELSE [ok |-> FALSE, val |-> 0]

RECURSIVE nat_str(_)
nat_str(n) ==
    IF n < 10 THEN <<LowerDigits[n + 1]>>
    ELSE nat_str(n \div 10) \o <<LowerDigits[(n % 10) + 1]>>

\* Python's str(n), as the f-strings format an int.
py_str(n) == IF n < 0 THEN <<"-">> \o nat_str(0 - n) ELSE nat_str(n)

\* text[2:]
drop_prefix(text) ==
    IF Len(text) <= 2 THEN <<>> ELSE SubSeq(text, 3, Len(text))

\* int(n / 2): the float quotient truncated toward zero.
int_half(n) == IF n >= 0 THEN n \div 2 ELSE 0 - ((0 - n) \div 2)

----------------------------------------------------------------------------
(* MatchDetails and the payout decision.                                   *)

\* The win threshold computed as int((bestof + 1) / 2).
MatchDetails_ceil(team1, team2, bestof, score1, score2, league, winning_score, draw_possible, draw_score) ==
    [team1 |-> team1, team2 |-> team2, bestof |-> bestof,
     score1 |-> score1, score2 |-> score2, league |-> league,
     winning_score |-> int_half(bestof + 1),
     draw_possible |-> (bestof % 2) = 0,
     draw_score |-> IF (bestof % 2) = 0 THEN int_half(bestof) ELSE draw_score]

\* The dataclass constructor followed by __post_init__.
MatchDetails(team1, team2, bestof, score1, score2, league, winning_score, draw_possible, draw_score) ==
    [team1 |-> team1, team2 |-> team2, bestof |-> bestof,
     score1 |-> score1, score2 |-> score2, league |-> league,
     winning_score |-> int_half(bestof) + 1,
     draw_possible |-> (bestof % 2) = 0,
     draw_score |-> IF (bestof % 2) = 0 THEN int_half(bestof) ELSE draw_score]

draw_label(m) == py_str(m.draw_score) \o <<" ", "-", " ">> \o py_str(m.draw_score)

\* The decision with the first two branches swapped.
winning_outcome_team2_first(m) ==
    IF m.score2 >= m.winning_score
    THEN [kind |-> "Team2Win", label |-> m.team2]
    ELSE IF m.score1 >= m.winning_score
    THEN [kind |-> "Team1Win", label |-> m.team1]
    ELSE IF m.score1 = m.score2 /\ m.score1 + m.score2 = m.bestof /\ m.draw_possible
    THEN [kind |-> "Draw", label |-> draw_label(m)]
    ELSE [kind |-> "Undetermined", label |-> <<>>]

\* The decision with > where the code has >=.
winning_outcome_strict(m) ==
    IF m.score1 > m.winning_score
    THEN [kind |-> "Team1Win", label |-> m.team1]
    ELSE IF m.score2 > m.winning_score
    THEN [kind |-> "Team2Win", label |-> m.team2]
    ELSE IF m.score1 = m.score2 /\ m.score1 + m.score2 = m.bestof /\ m.draw_possible
    THEN [kind |-> "Draw", label |-> draw_label(m)]
    ELSE [kind |-> "Undetermined", label |-> <<>>]

\* The decision that forgets the draw_possible test.
winning_outcome_any_draw(m) ==
    IF m.score1 >= m.winning_score
    THEN [kind |-> "Team1Win", label |-> m.team1]
    ELSE IF m.score2 >= m.winning_score
    THEN [kind |-> "Team2Win", label |-> m.team2]
    ELSE IF m.score1 = m.score2 /\ m.score1 + m.score2 >= m.bestof - 1
    THEN [kind |-> "Draw", label |-> draw_label(m)]
    ELSE [kind |-> "Undetermined", label |-> <<>>]

\* The if / elif chain of predictions_payout.
winning_outcome(m) ==
    IF m.score1 >= m.winning_score
    THEN [kind |-> "Team1Win", label |-> m.team1]
    ELSE IF m.score2 >= m.winning_score
    THEN [kind |-> "Team2Win", label |-> m.team2]
    ELSE IF m.score1 = m.score2 /\ m.score1 + m.score2 = m.bestof /\ m.draw_possible
    THEN [kind |-> "Draw", label |-> draw_label(m)]
    ELSE [kind |-> "Undetermined", label |-> <<>>]

----------------------------------------------------------------------------
(* The world outside the program: the profiles directory, the local ports, *)
(* the casting_data files and the Twitch prediction.                       *)

\* Names found in the profiles directory.
P1 == <<"1", "f">>                      \* port 31
P2 == <<"2", "0">>                      \* port 32
NotHex == <<"t", "m", "p">>             \* int(.., 16) raises ValueError
TooBig == <<"1", "0", "0", "0", "0">>   \* 65536
Negative == <<"-", "1">>                \* -1

DirNames == {P1, P2, NotHex, TooBig, Negative}
ProfileDirs == {P1, P2}
ProfilePorts == {py_int(p, 16).val : p \in ProfileDirs}

\* Directory listings: distinct names, in any order.
Listings ==
    UNION {{l \in [1..n -> DirNames] : \A i, j \in 1..n : i # j => l[i] # l[j]}
           : n \in 0..MaxListing}

ReadOrder == <<"bestof.txt", "team1.txt", "team2.txt",
               "score1.txt", "score2.txt", "league.txt">>
FileNames == {ReadOrder[i] : i \in 1..Len(ReadOrder)}

File(text) == [st |-> "ok", text |-> text]
MissingFile == [st |-> "missing", text |-> <<>>]
UnreadableFile == [st |-> "unreadable", text |-> <<>>]

TeamA == <<"A">>
TeamB == <<"B">>
League == <<"L">>

\* Contents the casting tool, or a user editing the files, may leave.
BestofTexts ==
    {<<"B", "O">> \o py_str(n) : n \in 0..MaxBestof}
    \cup {<<"X", "Y">>, <<"B", "O", "-", "2">>}

ScoreTexts ==
    {py_str(n) : n \in 0..MaxScore} \cup {<<"-", "1">>, <<"x">>}

\* A profile's casting_data with every file present and readable.
Data(bestof, score1, score2) ==
    [f \in FileNames |->
        CASE f = "bestof.txt" -> File(bestof)
          [] f = "score1.txt" -> File(score1)
          [] f = "score2.txt" -> File(score2)
          [] f = "team1.txt" -> File(TeamA)
          [] f = "team2.txt" -> File(TeamB)
          [] OTHER -> File(League)]

\* The middle of a best of three.
MidMatch(s1, s2) == Data(<<"B", "O", "3">>, py_str(s1), py_str(s2))

ReadableData ==
    {Data(b, s1, s2) : b \in BestofTexts, s1 \in ScoreTexts, s2 \in ScoreTexts}

\* One file of a profile missing or unreadable.
FaultyData ==
    {[MidMatch(1, 0) EXCEPT ![f] = x] :
        f \in FileNames, x \in {MissingFile, UnreadableFile}}

Outcome(id, title) == [id |-> id, title |-> title]
NoPrediction == [exists |-> FALSE, outcomes |-> <<>>]
Prediction(outcomes) == [exists |-> TRUE, outcomes |-> outcomes]

Predictions ==
    {NoPrediction,
     Prediction(<<Outcome("o1", TeamA), Outcome("o2", TeamB)>>),
     Prediction(<<Outcome("o1", TeamA), Outcome("o2", <<"1", " ", "-", " ", "1">>),
                  Outcome("o3", TeamB)>>),
     Prediction(<<Outcome("o1", TeamA), Outcome("o2", <<"2", " ", "-", " ", "2">>),
                  Outcome("o3", TeamB)>>),
     Prediction(<<Outcome("o1", <<"C">>), Outcome("o2", <<"D">>)>>)}

----------------------------------------------------------------------------
(* The local variables of one request.                                     *)

NoRecord ==
    [team1 |-> <<>>, team2 |-> <<>>, bestof |-> 0, score1 |-> 0, score2 |-> 0,
     league |-> <<>>, winning_score |-> 0, draw_possible |-> FALSE,
     draw_score |-> 0]

NoMatch == [kind |-> "none", rec |-> NoRecord]
Raised(exc) == [kind |-> exc, rec |-> NoRecord]
Returned(rec) == [kind |-> "MatchDetails", rec |-> rec]

NoResponse == [status |-> 0, body |-> ""]

\* The defaults of the derived fields of the dataclass.
Defaults ==
    [winning_score |-> DefaultDerived, draw_possible |-> FALSE,
     draw_score |-> DefaultDerived]

NoCall == [status |-> "none", outcome_id |-> ""]

FreshFrame ==
    [profile_ids |-> <<>>, idx |-> 0, profile |-> <<>>, reading |-> 0,
     team1 |-> <<>>, team2 |-> <<>>, league |-> <<>>,
     bestof |-> 0, score1 |-> 0, score2 |-> 0,
     given |-> Defaults, match |-> NoMatch,
     winning_outcome |-> <<>>, kind |-> "none",
     resolve_call |-> NoCall, response |-> NoResponse]

\* A frame that outlives its request.
kept_frame(old) == old

\* Every request runs in a frame of its own: nothing is kept between calls.
new_frame(old) == FreshFrame

----------------------------------------------------------------------------
(* Profile: the constructor and the liveness probe.                        *)

\* Profile(profile_id): the port is the name read as a base 16 integer.
Profile(profile_id) == py_int(profile_id, 16)

\* Profile.is_active: connect_ex takes only a port in 0..65535 and raises
\* OverflowError for any other; otherwise 0 means the connection was made.
is_active(port, open) ==
    IF port < 0 \/ port > 65535 THEN "OverflowError"
    ELSE IF port \in open THEN "active"
    ELSE "inactive"

\* Profile.get_casting_data: the text, or the exception open() raises.
\* Only FileNotFoundError is turned into SCCTError.
get_casting_data(fls, profile_id, filename) ==
    LET file == fls[profile_id][filename]
    IN  CASE file.st = "ok" -> [exc |-> "none", text |-> file.text]
          [] file.st = "missing" -> [exc |-> "SCCTError", text |-> <<>>]
          [] OTHER -> [exc |-> "PermissionError", text |-> <<>>]

\* The conversion get_match_details applies to a field it has read.
parse_field(filename, text) ==
    CASE filename = "bestof.txt" -> py_int(drop_prefix(text), 10)
      [] filename \in {"score1.txt", "score2.txt"} -> py_int(text, 10)
      [] OTHER -> [ok |-> TRUE, val |-> 0]

\* What predictions_payout answers when get_match_details raises: SCCTError
\* is caught and aborts with 500, anything else reaches the 500 handler.
Aborted(description) == [status |-> HttpError, body |-> description]
Answered(text) == [status |-> 0, body |-> text]

on_exception(exc) ==
    IF exc = "SCCTError"
    THEN Aborted("Failed to payout prediction: ")
    ELSE Aborted(exc)

----------------------------------------------------------------------------
(* The steps of a /predictions/payout request.                             *)

Requests == DOMAIN pc

Step(c, to, f) ==
    /\ pc' = [pc EXCEPT ![c] = to]
    /\ frame' = [frame EXCEPT ![c] = f]

\* get_match_details raises exc and the route answers.
Raise(c, exc) ==
    Step(c, "done", [frame[c] EXCEPT !.match = Raised(exc),
                                     !.response = on_exception(exc)])

Request(c) ==
    /\ pc[c] = "idle"
    /\ pc' = [pc EXCEPT ![c] = "listdir"]
    /\ quiet' = [quiet EXCEPT ![c] = TRUE]
    /\ held' = [held EXCEPT ![c] = {files}]
    /\ UNCHANGED <<envVars, ended, frame, changes>>

ListDir(c) ==
    /\ pc[c] = "listdir"
    /\ IF dirPresent
       THEN Step(c, "scan", [frame[c] EXCEPT !.profile_ids = listing, !.idx = 1])
       ELSE Raise(c, "SCCTError")
    /\ UNCHANGED <<envVars, ended, quiet, held, changes>>

ScanProfile(c) ==
    /\ pc[c] = "scan"
    /\ LET f == frame[c]
       IN  IF f.idx > Len(f.profile_ids)
           THEN Raise(c, "SCCTError")
           ELSE LET profile_id == f.profile_ids[f.idx]
                    p == Profile(profile_id)
                    probe == is_active(p.val, listening)
                IN  IF ~p.ok
                    THEN Step(c, "scan", [f EXCEPT !.idx = @ + 1])
                    ELSE CASE probe = "active" ->
                                Step(c, "read", [f EXCEPT !.profile = profile_id,
                                                          !.reading = 1])
                           [] probe = "inactive" ->
                                Step(c, "scan", [f EXCEPT !.idx = @ + 1])
                           [] OTHER -> Raise(c, probe)
    /\ UNCHANGED <<envVars, ended, quiet, held, changes>>

Store(f, filename, text, val) ==
    CASE filename = "bestof.txt" -> [f EXCEPT !.bestof = val]
      [] filename = "team1.txt" -> [f EXCEPT !.team1 = text]
      [] filename = "team2.txt" -> [f EXCEPT !.team2 = text]
      [] filename = "score1.txt" -> [f EXCEPT !.score1 = val]
      [] filename = "score2.txt" -> [f EXCEPT !.score2 = val]
      [] OTHER -> [f EXCEPT !.league = text]

ReadCastingData(c) ==
    /\ pc[c] = "read"
    /\ LET f == frame[c]
           filename == ReadOrder[f.reading]
           got == get_casting_data(files, f.profile, filename)
           parsed == parse_field(filename, got.text)
           g == Store(f, filename, got.text, parsed.val)
       IN  IF got.exc # "none" THEN Raise(c, got.exc)
           ELSE IF ~parsed.ok THEN Raise(c, "SCCTError")
           ELSE IF f.reading < Len(ReadOrder)
           THEN Step(c, "read", [g EXCEPT !.reading = @ + 1])
           ELSE Step(c, "construct", g)
    /\ UNCHANGED <<envVars, ended, quiet, held, changes>>

Construct(c) ==
    /\ pc[c] = "construct"
    /\ LET f == frame[c]
           rec == MatchDetails(f.team1, f.team2, f.bestof, f.score1, f.score2,
                               f.league, f.given.winning_score,
                               f.given.draw_possible, f.given.draw_score)
       IN  Step(c, "decide", [f EXCEPT !.match = Returned(rec)])
    /\ UNCHANGED <<envVars, ended, quiet, held, changes>>

Decide(c) ==
    /\ pc[c] = "decide"
    /\ LET f == frame[c]
           w == winning_outcome(f.match.rec)
           g == [f EXCEPT !.kind = w.kind, !.winning_outcome = w.label]
       IN  IF w.kind = "Undetermined"
           THEN Step(c, "done",
                     [g EXCEPT !.response = Aborted(
                        "Could not determine outcome, match may not be finished: ")])
           ELSE Step(c, "twitch", g)
    /\ held' = [held EXCEPT ![c] = {}]
    /\ UNCHANGED <<envVars, ended, quiet, changes>>

\* The search that takes the first outcome whatever its title.
find_outcome_any(outcomes, title) ==
    IF outcomes = <<>> THEN "" ELSE Head(outcomes).id

\* The id of the first outcome with the title, "" when there is none.
RECURSIVE find_outcome(_, _)
find_outcome(outcomes, title) ==
    IF outcomes = <<>> THEN ""
    ELSE IF Head(outcomes).title = title THEN Head(outcomes).id
    ELSE find_outcome(Tail(outcomes), title)

Twitch(c) ==
    /\ pc[c] = "twitch"
    /\ \E api \in {"ok", "get_users raises", "get_users finds nobody",
                   "get_predictions raises", "end_prediction raises"} :
         LET f == frame[c]
             winning_outcome_id == find_outcome(prediction.outcomes, f.winning_outcome)
             call == [status |-> "RESOLVED", outcome_id |-> winning_outcome_id]
         IN  IF api \in {"get_users raises", "get_predictions raises"}
             THEN /\ Step(c, "done", [f EXCEPT !.response =
                                        Aborted("Failed to payout prediction ")])
                  /\ ended' = ended
             ELSE IF api = "get_users finds nobody" \/ ~prediction.exists
             THEN /\ Step(c, "done", [f EXCEPT !.response = Aborted("AssertionError")])
                  /\ ended' = ended
             ELSE IF winning_outcome_id = ""
             THEN /\ Step(c, "done", [f EXCEPT !.response =
                                        Aborted("could not find winning outcome")])
                  /\ ended' = ended
             ELSE IF api = "end_prediction raises"
             THEN /\ Step(c, "done", [f EXCEPT !.resolve_call = call, !.response =
                                        Aborted("Failed to payout prediction ")])
                  /\ ended' = ended
             ELSE /\ Step(c, "done", [f EXCEPT !.resolve_call = call, !.response =
                                        Answered("Paid out prediction, result: ")])
                  /\ ended' = ended \cup {call}
    /\ UNCHANGED <<envVars, quiet, held, changes>>

Return(c) ==
    /\ pc[c] = "done"
    /\ Step(c, "idle", new_frame(frame[c]))
    /\ held' = [held EXCEPT ![c] = {}]
    /\ UNCHANGED <<envVars, ended, quiet, changes>>

----------------------------------------------------------------------------
(* The casting tool and its user, changing what the program reads.         *)

\* Request c is inside its call of get_match_details.
InCall(c) == pc[c] \in {"listdir", "scan", "read", "construct"}

\* One change, of at most limit.
Disturb(limit) ==
    /\ changes < limit
    /\ changes' = changes + 1
    /\ quiet' = [c \in Requests |-> FALSE]
    /\ held' = [c \in Requests |->
                  IF InCall(c) THEN held[c] \cup {files'} ELSE held[c]]
    /\ UNCHANGED <<prediction, ended, pc, frame>>

\* What a running casting tool writes into its own profile.
ToolWrites ==
    {<<"bestof.txt", <<"B", "O">> \o py_str(n)>> : n \in 1..MaxBestof}
    \cup {<<f, py_str(n)>> : f \in {"score1.txt", "score2.txt"}, n \in 0..MaxScore}

PortOf == [p \in ProfileDirs |-> Profile(p).val]

WriteFile(p, filename, text, limit) ==
    /\ PortOf[p] \in listening
    /\ files[p][filename] # File(text)
    /\ files' = [files EXCEPT ![p][filename] = File(text)]
    /\ UNCHANGED <<dirPresent, listing, listening>>
    /\ Disturb(limit)

SwitchProfile(open, limit) ==
    /\ open # listening
    /\ listening' = open
    /\ UNCHANGED <<dirPresent, listing, files>>
    /\ Disturb(limit)

----------------------------------------------------------------------------
(* Specifications.                                                         *)

GoodFiles == [p \in ProfileDirs |-> IF p = P1 THEN MidMatch(1, 0) ELSE MidMatch(0, 2)]
TwoTeams == Prediction(<<Outcome("o1", TeamA), Outcome("o2", TeamB)>>)

\* Requests idle in fresh frames.
Idle(requests) ==
    /\ pc = [c \in requests |-> "idle"]
    /\ frame = [c \in requests |-> FreshFrame]
    /\ quiet = [c \in requests |-> TRUE]
    /\ held = [c \in requests |-> {}]
    /\ ended = {}

\* One casting tool running, profile P1 active, a match under way.
Init ==
    /\ dirPresent = TRUE
    /\ listing = <<P1, P2>>
    /\ listening = {31}
    /\ files = GoodFiles
    /\ prediction = TwoTeams
    /\ changes = 0
    /\ Idle({"r1", "r2"})

RequestNext ==
    \/ \E c \in Requests : Request(c)
    \/ \E c \in Requests : ListDir(c)
    \/ \E c \in Requests : ScanProfile(c)
    \/ \E c \in Requests : ReadCastingData(c)
    \/ \E c \in Requests : Construct(c)
    \/ \E c \in Requests : Decide(c)
    \/ \E c \in Requests : Twitch(c)
    \/ \E c \in Requests : Return(c)

ToolNext ==
    \/ \E p \in ProfileDirs, w \in ToolWrites : WriteFile(p, w[1], w[2], MaxChanges)
    \/ \E open \in SUBSET ProfilePorts : SwitchProfile(open, MaxChanges)

Next == RequestNext \/ ToolNext

Spec == Init /\ [][Next]_vars

\* One request while the casting tool makes up to MaxWrites changes.
InitLive ==
    /\ dirPresent = TRUE
    /\ listing = <<P1, P2>>
    /\ listening = {31}
    /\ files = GoodFiles
    /\ prediction = TwoTeams
    /\ changes = 0
    /\ Idle({"r1"})

LiveNext ==
    \/ RequestNext
    \/ \E p \in ProfileDirs, w \in ToolWrites : WriteFile(p, w[1], w[2], MaxWrites)
    \/ \E open \in SUBSET ProfilePorts : SwitchProfile(open, MaxWrites)

SpecLive == InitLive /\ [][LiveNext]_vars

\* Any directory listing and any set of open ports, files as in Init.
InitScan ==
    /\ dirPresent \in BOOLEAN
    /\ listing \in Listings
    /\ listening \in SUBSET ProfilePorts
    /\ files = GoodFiles
    /\ prediction = TwoTeams

\* Profile P1 active with any file contents, or one file missing or
\* unreadable, and any of the predictions.
InitFiles ==
    /\ dirPresent = TRUE
    /\ listing \in {<<P1>>, <<NotHex, P1>>}
    /\ listening = {31}
    /\ files \in {[GoodFiles EXCEPT ![P1] = d] : d \in ReadableData \cup FaultyData}
    /\ prediction \in Predictions

InitStill ==
    /\ InitScan \/ InitFiles
    /\ changes = 0
    /\ Idle({"r1"})

SpecStill == InitStill /\ [][RequestNext]_vars

\* MatchDetails constructed directly, with any values for its fields.
InitRecord ==
    /\ dirPresent = TRUE
    /\ listing = <<P1, P2>>
    /\ listening = {31}
    /\ files = GoodFiles
    /\ prediction = TwoTeams
    /\ changes = 0
    /\ ended = {}
    /\ quiet = [c \in {"r1"} |-> TRUE]
    /\ held = [c \in {"r1"} |-> {GoodFiles}]
    /\ pc = [c \in {"r1"} |-> "construct"]
    /\ \E bestof \in -3..MaxBestof, score1, score2 \in -1..MaxScore,
          team2 \in {TeamA, TeamB},
          winning_score \in {DefaultDerived, 1}, draw_possible \in BOOLEAN,
          draw_score \in {DefaultDerived, 1} :
         frame = [c \in {"r1"} |->
                    [FreshFrame EXCEPT
                       !.team1 = TeamA, !.team2 = team2, !.league = League,
                       !.bestof = bestof, !.score1 = score1, !.score2 = score2,
                       !.given = [winning_score |-> winning_score,
                                  draw_possible |-> draw_possible,
                                  draw_score |-> draw_score]]]

RecordNext ==
    \/ \E c \in Requests : Construct(c)
    \/ \E c \in Requests : Decide(c)

SpecRecord == InitRecord /\ [][RecordNext]_vars

----------------------------------------------------------------------------
(* get_match_details run in one piece on the world as it is now.           *)

\* get_active_profile over the listing ids with the ports open.
RECURSIVE get_active_profile(_, _)
get_active_profile(ids, open) ==
    IF ids = <<>> THEN [exc |-> "SCCTError", profile |-> <<>>]
    ELSE LET p == Profile(Head(ids))
             probe == is_active(p.val, open)
         IN  IF ~p.ok THEN get_active_profile(Tail(ids), open)
             ELSE IF probe = "active" THEN [exc |-> "none", profile |-> Head(ids)]
             ELSE IF probe = "inactive" THEN get_active_profile(Tail(ids), open)
             ELSE [exc |-> probe, profile |-> <<>>]

\* What reading and converting field i of a profile gives.
field(fls, profile_id, i) ==
    LET got == get_casting_data(fls, profile_id, ReadOrder[i])
        parsed == parse_field(ReadOrder[i], got.text)
    IN  [exc |-> IF got.exc # "none" THEN got.exc
                 ELSE IF ~parsed.ok THEN "SCCTError" ELSE "none",
         text |-> got.text, val |-> parsed.val]

get_match_details(present, ids, open, fls) ==
    IF ~present THEN Raised("SCCTError")
    ELSE LET found == get_active_profile(ids, open)
             failing == {i \in 1..Len(ReadOrder) :
                            field(fls, found.profile, i).exc # "none"}
             first == CHOOSE i \in failing : \A j \in failing : i <= j
         IN  IF found.exc # "none" THEN Raised(found.exc)
             ELSE IF failing # {} THEN Raised(field(fls, found.profile, first).exc)
             ELSE Returned(MatchDetails(
                     field(fls, found.profile, 2).text,
                     field(fls, found.profile, 3).text,
                     field(fls, found.profile, 1).val,
                     field(fls, found.profile, 4).val,
                     field(fls, found.profile, 5).val,
                     field(fls, found.profile, 6).text,
                     Defaults.winning_score, Defaults.draw_possible,
                     Defaults.draw_score))

CurrentMatch == get_match_details(dirPresent, listing, listening, files)

----------------------------------------------------------------------------
(* Properties.                                                             *)

Decided(c) == frame[c].kind # "none"
Built(c) == frame[c].match.kind = "MatchDetails"

\* C1: whenever score1 has reached winning_score the decision is Team1Win
\* with team1 as label, whatever score2 is; Team2Win, with team2 as label,
\* is decided only when score2 has reached winning_score and score1 has not.
C1_Precedence ==
    \A c \in Requests :
        Decided(c) =>
            LET m == frame[c].match.rec
                f == frame[c]
            IN  /\ m.score1 >= m.winning_score =>
                      f.kind = "Team1Win" /\ f.winning_outcome = m.team1
                /\ f.kind = "Team2Win" =>
                      /\ m.score2 >= m.winning_score
                      /\ m.score1 < m.winning_score
                      /\ f.winning_outcome = m.team2

\* Both scores have reached winning_score and team 1 was decided.
C1_Witness ==
    \E c \in Requests :
        /\ Decided(c)
        /\ frame[c].match.rec.score1 >= frame[c].match.rec.winning_score
        /\ frame[c].match.rec.score2 >= frame[c].match.rec.winning_score
        /\ frame[c].match.rec.team1 # frame[c].match.rec.team2
        /\ frame[c].kind = "Team1Win"

\* C2 as stated: every derived field of a constructed record is recomputed
\* from bestof, so it is what the construction with the default values
\* gives, whatever the caller passed.
C2_AllRecomputed ==
    \A c \in Requests :
        (Built(c) /\ frame[c].match.rec.bestof >= 1) =>
            LET f == frame[c]
            IN  f.match.rec = MatchDetails(f.team1, f.team2, f.bestof, f.score1,
                                           f.score2, f.league,
                                           Defaults.winning_score,
                                           Defaults.draw_possible,
                                           Defaults.draw_score)

\* C2 amended: for positive bestof b, winning_score = floor(b/2)+1 and
\* draw_possible = (b mod 2 = 0) whatever the caller passed; draw_score is
\* floor(b/2) when draw_possible and is the value the caller passed (by
\* default -1) when not.
C2_Derived ==
    \A c \in Requests :
        (Built(c) /\ frame[c].match.rec.bestof >= 1) =>
            LET m == frame[c].match.rec
                b == m.bestof
            IN  /\ b = frame[c].bestof
                /\ m.winning_score = (b \div 2) + 1
                /\ m.draw_possible = (b % 2 = 0)
                /\ m.draw_possible => m.draw_score = b \div 2
                /\ ~m.draw_possible => m.draw_score = frame[c].given.draw_score

\* A record built from arguments that disagree with its bestof.
C2_Witness ==
    \E c \in Requests :
        /\ Built(c)
        /\ frame[c].match.rec.bestof = 3
        /\ frame[c].given.winning_score = 1
        /\ frame[c].given.draw_possible = TRUE
        /\ frame[c].given.draw_score = 1
        /\ frame[c].match.rec.winning_score = 2
        /\ frame[c].match.rec.draw_possible = FALSE
        /\ frame[c].match.rec.draw_score = 1

\* Neither score has reached winning_score.
NoWinner(m) == m.score1 < m.winning_score /\ m.score2 < m.winning_score

DrawReached(m) ==
    /\ NoWinner(m)
    /\ m.score1 = m.score2
    /\ m.score1 + m.score2 = m.bestof
    /\ m.draw_possible

\* C3: the decision is Draw exactly when neither score has reached
\* winning_score, the scores are equal, they add up to bestof and
\* draw_possible holds; the label is then "<bestof/2> - <bestof/2>". It is
\* never Draw for odd bestof, and Undetermined in every other case without
\* a winner.
C3_Draw ==
    \A c \in Requests :
        Decided(c) =>
            LET m == frame[c].match.rec
                f == frame[c]
            IN  /\ f.kind = "Draw" <=> DrawReached(m)
                /\ f.kind = "Draw" =>
                      f.winning_outcome =
                          py_str(m.bestof \div 2) \o <<" ", "-", " ">>
                              \o py_str(m.bestof \div 2)
                /\ m.bestof % 2 = 1 => f.kind # "Draw"
                /\ (NoWinner(m) /\ ~DrawReached(m)) => f.kind = "Undetermined"

\* A best of four at 2 - 2 is decided Draw with the label "2 - 2".
C3_Witness ==
    \E c \in Requests :
        /\ Decided(c)
        /\ frame[c].match.rec.bestof = 4
        /\ frame[c].match.rec.score1 = 2
        /\ frame[c].match.rec.score2 = 2
        /\ frame[c].kind = "Draw"
        /\ frame[c].winning_outcome = <<"2", " ", "-", " ", "2">>

\* The scan of request c is over: get_active_profile returned or raised.
Scanned(c) == pc[c] \in {"read", "construct", "decide", "twitch", "done"}
                /\ frame[c].idx >= 1

\* The positions of the listing whose name reads as a hexadecimal number
\* and whose port accepts a connection.
Reachable(ids, open) ==
    {i \in 1..Len(ids) : Profile(ids[i]).ok /\ Profile(ids[i]).val \in open}

Least(S) == CHOOSE i \in S : \A j \in S : i <= j

\* C4: get_active_profile returns the first listed candidate that reads as
\* hexadecimal and accepts a connection, wherever it sits in the listing,
\* and fails with the not-found SCCTError when no candidate is reachable.
C4_FirstReachable ==
    \A c \in Requests :
        Scanned(c) =>
            LET f == frame[c]
                r == Reachable(f.profile_ids, listening)
            IN  IF r = {}
                THEN f.profile = <<>> /\ f.match = Raised("SCCTError")
                ELSE f.profile = f.profile_ids[Least(r)]

\* C5: no candidate aborts the scan; it ends only by returning an active
\* profile or, with the not-found SCCTError, after the last candidate.
C5_ScanNeverAborted ==
    \A c \in Requests :
        Scanned(c) =>
            LET f == frame[c]
            IN  \/ f.profile # <<>>
                \/ /\ f.idx > Len(f.profile_ids)
                   /\ f.match = Raised("SCCTError")

\* C6, for the calls whose discovery succeeded: get_match_details ends with
\* a match record or with SCCTError, whatever the state of the six field
\* files (present, missing, unreadable, malformed).
C6_RecordOrSCCTError ==
    \A c \in Requests :
        (pc[c] \in {"decide", "twitch", "done"} /\ frame[c].profile # <<>>) =>
            frame[c].match.kind \in {"MatchDetails", "SCCTError"}

\* C7: every record get_match_details returns has bestof >= 1,
\* score1 >= 0 and score2 >= 0.
C7_RecordRanges ==
    \A c \in Requests :
        (Built(c) /\ frame[c].profile # <<>>) =>
            /\ frame[c].match.rec.bestof >= 1
            /\ frame[c].match.rec.score1 >= 0
            /\ frame[c].match.rec.score2 >= 0

\* C8: a request that has its result, and since whose beginning nothing
\* outside has changed, holds what get_match_details gives on the world as
\* it is now: nothing in it comes from an earlier or a concurrent call.
C8_NoStateSurvives ==
    \A c \in Requests :
        (pc[c] # "idle" /\ quiet[c] /\ frame[c].match.kind # "none") =>
            frame[c].match = CurrentMatch

\* A request begun after a change holds a record of the changed data while
\* another request still holds a record of the data before the change.
C8_Witness ==
    \E c, d \in Requests :
        /\ c # d
        /\ changes >= 1
        /\ pc[c] # "idle" /\ quiet[c] /\ Built(c)
        /\ pc[d] # "idle" /\ ~quiet[d] /\ Built(d)
        /\ frame[c].match # frame[d].match
        /\ frame[c].match = CurrentMatch

UndeterminedText == "Could not determine outcome, match may not be finished: "

\* The record meets none of the terminal conditions.
NoTerminal(m) == NoWinner(m) /\ ~DrawReached(m)

\* C9 as stated: the answer to a request whose record meets none of the
\* terminal conditions is informational, not an error response.
C9_Informational ==
    \A c \in Requests :
        (pc[c] = "done" /\ Built(c) /\ NoTerminal(frame[c].match.rec)) =>
            frame[c].response.status # HttpError

\* C9 amended: a record that meets none of the terminal conditions is
\* answered with abort(500) like every failure, without a resolve call, and
\* with the text "Could not determine outcome, match may not be finished",
\* which no other answer carries.
C9_UndeterminedByText ==
    \A c \in Requests :
        pc[c] = "done" =>
            LET f == frame[c]
            IN  /\ (Built(c) /\ NoTerminal(f.match.rec)) =>
                      /\ f.response = Aborted(UndeterminedText)
                      /\ f.resolve_call = NoCall
                /\ f.response.body = UndeterminedText =>
                      Built(c) /\ NoTerminal(f.match.rec)
                /\ ~Built(c) => f.response.status = HttpError

\* A best of three at 1 - 0 answered as undetermined.
C9_Witness ==
    \E c \in Requests :
        /\ pc[c] = "done"
        /\ Built(c)
        /\ frame[c].match.rec.bestof = 3
        /\ frame[c].match.rec.score1 = 1
        /\ frame[c].match.rec.score2 = 0
        /\ frame[c].response = Aborted(UndeterminedText)

\* The label of a concluded record.
LabelOf(m) ==
    IF m.score1 >= m.winning_score THEN m.team1
    ELSE IF m.score2 >= m.winning_score THEN m.team2
    ELSE py_str(m.draw_score) \o <<" ", "-", " ">> \o py_str(m.draw_score)

Titled(label) ==
    {i \in 1..Len(prediction.outcomes) : prediction.outcomes[i].title = label}

\* C10: a finished payout issued the RESOLVED call only if the record it
\* read has concluded, and for an outcome whose title is the record's
\* label; when the match details could not be read, the record has not
\* concluded or no outcome carries the label, it answered with an error and
\* issued no call. Twitch holds no resolution but those.
C10_Payout ==
    /\ \A c \in Requests :
          pc[c] = "done" =>
              LET f == frame[c]
                  concluded == Built(c) /\ ~NoTerminal(f.match.rec)
                  titled == Titled(LabelOf(f.match.rec))
              IN  /\ f.resolve_call # NoCall =>
                        /\ concluded
                        /\ f.resolve_call.status = "RESOLVED"
                        /\ \E i \in titled :
                              prediction.outcomes[i].id = f.resolve_call.outcome_id
                  /\ (~concluded \/ titled = {}) =>
                        /\ f.resolve_call = NoCall
                        /\ f.response.status = HttpError
                  /\ f.response.status # HttpError => f.resolve_call \in ended
    /\ \A e \in ended :
          /\ CurrentMatch.kind = "MatchDetails"
          /\ ~NoTerminal(CurrentMatch.rec)
          /\ \E i \in Titled(LabelOf(CurrentMatch.rec)) :
                prediction.outcomes[i].id = e.outcome_id

\* A drawn best of four paid out on the outcome titled "2 - 2".
C10_Witness ==
    \E c \in Requests :
        /\ pc[c] = "done"
        /\ frame[c].match.rec.bestof = 4
        /\ frame[c].kind = "Draw"
        /\ frame[c].resolve_call = [status |-> "RESOLVED", outcome_id |-> "o2"]
        /\ frame[c].resolve_call \in ended
        /\ frame[c].response.status # HttpError

\* Every field file of the profile can be read and converted in fls.
Readable(fls, profile_id) ==
    \A i \in 1..Len(ReadOrder) : field(fls, profile_id, i).exc = "none"

\* The record the six fields of the profile give as fls holds them together.
RecordOf(fls, profile_id) ==
    MatchDetails(field(fls, profile_id, 2).text, field(fls, profile_id, 3).text,
                 field(fls, profile_id, 1).val, field(fls, profile_id, 4).val,
                 field(fls, profile_id, 5).val, field(fls, profile_id, 6).text,
                 Defaults.winning_score, Defaults.draw_possible,
                 Defaults.draw_score)

\* C11: every record get_match_details returns is, when it is returned, the
\* record of the six field values that the files of its profile held
\* together at one moment of the call; no record mixes values of two states
\* of the files.
C11_Snapshot ==
    \A c \in Requests :
        (pc[c] = "decide" /\ frame[c].profile # <<>>) =>
            \E fls \in held[c] :
                /\ Readable(fls, frame[c].profile)
                /\ frame[c].match.rec = RecordOf(fls, frame[c].profile)

=============================================================================
